---- MODULE Spec2Model ----
(***************************************************************************)
(* A model of the Redis-backed SSE transports of dalle-mcp-sse             *)
(* (src/src/redis_transport.ts) and of the way src/src/index.ts drives     *)
(* them.                                                                   *)
(*                                                                         *)
(* A step of the model is one run-to-completion segment of the event       *)
(* loop: the synchronous code between two awaits of an async method, or    *)
(* one callback (a subscription listener, an 'error' listener).            *)
(*                                                                         *)
(* The Redis client, the broker and the HTTP response are libraries; what  *)
(* the transports rely on is modelled where the transports call them:      *)
(*   - a connection hands the client what the broker sent in FIFO order,   *)
(*     replies to SUBSCRIBE/UNSUBSCRIBE and published messages alike;      *)
(*   - connect() on a client that is connecting or open rejects;           *)
(*   - a command on a client that is not open has an outcome the           *)
(*     transport cannot rely on (it resolves or it rejects);               *)
(*   - response.write() before the headers sends them implicitly, and      *)
(*     response.writeHead() after the headers were sent throws.            *)
(***************************************************************************)
EXTENDS Integers, Sequences, FiniteSets, TLC

(* ------------------------------ bounds -------------------------------- *)

\* Payloads the broker accepts on one channel over a run.
MaxPub == 2
\* Payloads that clients other than the forwarders publish on one channel.
MaxForeign == 1
\* close() calls made on one Stream-Owner Transport.
MaxClose == 2
\* start() calls made on one Stream-Owner Transport (each one duplicates a
\* dedicated subscription client).
MaxStart == 2

(* ---------------------------- the instances --------------------------- *)

\* SSESubscribeTransport instances (GET /sse) and SSEPublishTransport
\* instances (POST /messages).
Owners == {"o1", "o2"}
Fwds == {"f1", "f2"}
Transports == Owners \cup Fwds

\* The async send()/start() calls that may be in flight on the forwarders.
Calls == {"k1", "k2"}

\* The dedicated subscription clients one owner may come to create.
Clients == 1..MaxStart

\* _sessionId: minted by randomUUID() in the owner's constructor (one per
\* owner), taken from the request's query by the forwarder's: f1 is
\* constructed with the identifier of o1, f2 with that of o2.
SessionIds == {"s1", "s2"}
SessionId(t) == IF t \in {"o1", "f1"} THEN "s1" ELSE "s2"

\* _endpoint, as index.ts passes it.
Endpoint == "/messages"

\* A variant of the function below that leaves the identifier out.
getChannelNameShared(sessionId) == "sse:channel:"

getChannelName(sessionId) == "sse:channel:" \o sessionId

Channels == {getChannelName(sessionId) : sessionId \in SessionIds}

\* The transports and the channel of one session.
Owner1 == {"o1"}
Fwd1 == {"f1"}
Channel1 == {getChannelName("s1")}

(* ------------------------------- JSON --------------------------------- *)

\* Parsed values. JSONRPCMessages conform to JSONRPCMessageSchema; OtherJson
\* are JSON values that do not (such as {"foo": 1}).
PubMessages == {"m1", "m2"}
LocalMessages == {"e1"}
JSONRPCMessages == PubMessages \cup LocalMessages
OtherJson == {"j1"}

\* A text: wf says whether it is well-formed JSON, val the value it denotes
\* (or the text itself when it is not JSON), ws whether it carries
\* insignificant white space.
Text(wf, val, ws) == [wf |-> wf, val |-> val, ws |-> ws]
Garbage == Text(FALSE, "{oops", FALSE)
NoText == Text(FALSE, "", FALSE)

\* JSON.stringify(value): the compact text of the value.
JSONStringify(v) == Text(TRUE, v, FALSE)

\* JSON.parse(text): the value, or a SyntaxError.
JSONParse(t) ==
    IF t.wf THEN [ok |-> TRUE, val |-> t.val]
            ELSE [ok |-> FALSE, val |-> "SyntaxError"]

\* JSONRPCMessageSchema.parse(value) succeeds.
JSONRPCMessageSchemaOk(v) == v \in JSONRPCMessages

(* ------------------------------ state --------------------------------- *)

VARIABLES
    \* SSERedisTransportBase, per transport
    isStarted,          \* _isStarted
    redisClient,        \* the connection of _redisClient: closed, connecting, open
    errLogged,          \* the 'error' listener of _redisClient has logged
    onerrorCalled,      \* onerror has been invoked
    \* SSESubscribeTransport, per owner
    subscriberClient,   \* _subscriberClient: 0 (undefined) or the client it refers to
    cState,             \* per dedicated client: none, connecting, open, closed
    cInbox,             \* per dedicated client: what the broker sent, not yet handled
    cCmds,              \* per dedicated client: the commands issued on it
    oCmds,              \* the commands issued on the owner's _redisClient
    oPc,                \* where the owner's current start()/close() call stands
    startCalls,         \* start() calls made on the owner
    closeCalls,         \* close() calls made on the owner
    msgErrors,          \* 'Error handling SSE message' lines logged
    \* _sseResponse, per owner
    headersSent,        \* the response's headers have been sent
    stream,             \* what has been written to the response, in order
    peerGone,           \* the remote peer has disconnected
    \* the broker
    brokerSubs,         \* per channel: the clients subscribed to it
    chanLog,            \* per channel: the payloads the broker accepted
    fanout,             \* per dedicated client: the payloads the broker sent it
    \* SSEPublishTransport
    call,               \* per call slot: the async call in flight
    stage,              \* per forwarder: how far its POST /messages handler is
    lastSend,           \* per forwarder: how its last finished send() ended
    post                \* per forwarder: the handlePostMessage call and its outcome

baseVars == <<isStarted, redisClient, errLogged, onerrorCalled>>
ownerVars == <<subscriberClient, cState, cInbox, cCmds, oCmds, oPc, startCalls,
               closeCalls, msgErrors>>
resVars == <<headersSent, stream, peerGone>>
brokerVars == <<brokerSubs, chanLog, fanout>>
fwdVars == <<call, stage, lastSend, post>>
vars == <<baseVars, ownerVars, resVars, brokerVars, fwdVars>>

\* An owner with no call in flight.
OwnerIdle == {"created", "ready", "failed", "closed"}

\* A call slot with no call in flight.
NoCall == [op |-> "none", f |-> "f1", msg |-> "", pc |-> "free"]

\* An inbound request: its Content-Type, req.body as a body parser left it
\* (kind absent, string or object) and the raw body still to be read.
NoRequest == [ct |-> "", body |-> "absent", text |-> NoText]
NoPost == [req |-> NoRequest, result |-> "none", msg |-> ""]

Init ==
    /\ isStarted = [t \in Transports |-> FALSE]
    /\ redisClient = [t \in Transports |-> "closed"]
    /\ errLogged = [t \in Transports |-> FALSE]
    /\ onerrorCalled = [t \in Transports |-> FALSE]
    /\ subscriberClient = [o \in Owners |-> 0]
    /\ cState = [o \in Owners |-> [k \in Clients |-> "none"]]
    /\ cInbox = [o \in Owners |-> [k \in Clients |-> <<>>]]
    /\ cCmds = [o \in Owners |-> [k \in Clients |-> <<>>]]
    /\ oCmds = [o \in Owners |-> <<>>]
    /\ oPc = [o \in Owners |-> "created"]
    /\ startCalls = [o \in Owners |-> 0]
    /\ closeCalls = [o \in Owners |-> 0]
    /\ msgErrors = [o \in Owners |-> 0]
    /\ headersSent = [o \in Owners |-> FALSE]
    /\ stream = [o \in Owners |-> <<>>]
    /\ peerGone = [o \in Owners |-> FALSE]
    /\ brokerSubs = [c \in Channels |-> {}]
    /\ chanLog = [c \in Channels |-> <<>>]
    /\ fanout = [o \in Owners |-> [k \in Clients |-> <<>>]]
    /\ call = [k \in Calls |-> NoCall]
    /\ stage = [f \in Fwds |-> "new"]
    /\ lastSend = [f \in Fwds |-> "none"]
    /\ post = [f \in Fwds |-> NoPost]

(* --------------------------- the response ----------------------------- *)

\* What the response carries: the header block, the announcement event
\* (event: endpoint), a message event (data: <json>).
HeadEvent == [event |-> "head", path |-> "", sid |-> "", data |-> NoText]
EndpointEvent(path, sid) == [event |-> "endpoint", path |-> path, sid |-> sid, data |-> NoText]
MessageEvent(text) == [event |-> "message", path |-> "", sid |-> "", data |-> text]

\* response.write(chunk): sends the headers first when they were not sent.
ResponseWrite(o, ev) ==
    /\ stream' = [stream EXCEPT ![o] =
                    (IF headersSent[o] THEN @ ELSE Append(@, HeadEvent)) \o <<ev>>]
    /\ headersSent' = [headersSent EXCEPT ![o] = TRUE]

(* ---------------------------- the broker ------------------------------ *)

Item(kind, data) == [kind |-> kind, data |-> data]

\* What a channel's subscribers get of a payload: the broker appends it to
\* the connection of each.
Deliver(queue, payload) == Append(queue, Item("message", payload))

\* A variant of the broker below that keeps a payload for every client,
\* subscribed or not, to be handed over once the client is connected.
BrokerPublishQueues(c, payload) ==
    /\ chanLog' = [chanLog EXCEPT ![c] = Append(@, payload)]
    /\ cInbox' = [o \in Owners |-> [k \in Clients |-> Deliver(cInbox[o][k], payload)]]
    /\ fanout' = [o \in Owners |-> [k \in Clients |-> Append(fanout[o][k], payload)]]
    /\ UNCHANGED brokerSubs

\* A variant of the broker below that hands a payload to the subscribers
\* of every channel.
BrokerPublishEverywhere(c, payload) ==
    LET subscribed(o, k) == \E ch \in Channels : <<o, k>> \in brokerSubs[ch]
    IN  /\ chanLog' = [chanLog EXCEPT ![c] = Append(@, payload)]
        /\ cInbox' = [o \in Owners |-> [k \in Clients |->
                        IF subscribed(o, k) THEN Deliver(cInbox[o][k], payload)
                                            ELSE cInbox[o][k]]]
        /\ fanout' = [o \in Owners |-> [k \in Clients |->
                        IF subscribed(o, k) THEN Append(fanout[o][k], payload)
                                            ELSE fanout[o][k]]]
        /\ UNCHANGED brokerSubs

\* PUBLISH channel payload, as the broker handles it.
BrokerPublish(c, payload) ==
    /\ chanLog' = [chanLog EXCEPT ![c] = Append(@, payload)]
    /\ cInbox' = [o \in Owners |-> [k \in Clients |->
                    IF <<o, k>> \in brokerSubs[c]
                        THEN Deliver(cInbox[o][k], payload)
                        ELSE cInbox[o][k]]]
    /\ fanout' = [o \in Owners |-> [k \in Clients |->
                    IF <<o, k>> \in brokerSubs[c]
                        THEN Append(fanout[o][k], payload)
                        ELSE fanout[o][k]]]
    /\ UNCHANGED brokerSubs

\* The payloads a publish may still add to a channel's log: those of the
\* send() calls that have not published yet count against MaxPub.
PendingPublishes(c) ==
    Cardinality({k \in Calls : /\ call[k].op = "send"
                               /\ call[k].pc \in {"send_connect"}
                               /\ getChannelName(SessionId(call[k].f)) = c})

(* ------------------- SSERedisTransportBase: 'error' ------------------- *)

\* The 'error' listener the constructor installs on _redisClient: it logs,
\* and does nothing else.
OnRedisClientError(t) ==
    /\ errLogged' = [errLogged EXCEPT ![t] = TRUE]
    /\ UNCHANGED onerrorCalled

\* The broker connection of a transport fails (unreachable, dropped): the
\* client emits 'error'.
RedisError(t) ==
    /\ redisClient[t] # "closed"
    /\ ~errLogged[t]
    /\ OnRedisClientError(t)
    /\ UNCHANGED <<isStarted, redisClient, ownerVars, resVars, brokerVars, fwdVars>>

(* --------------------- SSESubscribeTransport.start -------------------- *)

\* A variant of the step below whose start() connects whether or not
\* _isStarted is set.
BeginStartAlways(o) ==
    /\ startCalls' = [startCalls EXCEPT ![o] = @ + 1]
    /\ oPc' = [oPc EXCEPT ![o] = "start_base"]
    /\ redisClient' = [redisClient EXCEPT ![o] = "connecting"]
    /\ oCmds' = [oCmds EXCEPT ![o] = Append(@, "connect")]
    /\ UNCHANGED <<isStarted, errLogged, onerrorCalled, subscriberClient, cState,
                   cInbox, cCmds, closeCalls, msgErrors, resVars, brokerVars, fwdVars>>

\* start() is called: super.start() runs to its await of connect().
BeginStart(o) ==
    /\ startCalls' = [startCalls EXCEPT ![o] = @ + 1]
    /\ oPc' = [oPc EXCEPT ![o] = "start_base"]
    /\ IF ~isStarted[o]
          THEN /\ redisClient' = [redisClient EXCEPT ![o] = "connecting"]
               /\ oCmds' = [oCmds EXCEPT ![o] = Append(@, "connect")]
          ELSE UNCHANGED <<redisClient, oCmds>>
    /\ UNCHANGED <<isStarted, errLogged, onerrorCalled, subscriberClient, cState,
                   cInbox, cCmds, closeCalls, msgErrors, resVars, brokerVars, fwdVars>>

\* The hosting process starts a transport it has just created (server.connect).
StartOwner(o) ==
    /\ oPc[o] = "created"
    /\ BeginStart(o)

\* super.start() returns (connect() resolved, ok, or rejected); start() then
\* duplicates the client and awaits the duplicate's connect().
StartBaseDone(o, ok) ==
    /\ oPc[o] = "start_base"
    /\ (redisClient[o] = "connecting" \/ ok)
    /\ IF ok
          THEN /\ isStarted' = [isStarted EXCEPT ![o] = TRUE]
               /\ redisClient' = [redisClient EXCEPT ![o] = "open"]
               /\ subscriberClient' = [subscriberClient EXCEPT ![o] = startCalls[o]]
               /\ cState' = [cState EXCEPT ![o][startCalls[o]] = "connecting"]
               /\ cCmds' = [cCmds EXCEPT ![o][startCalls[o]] = Append(@, "connect")]
               /\ oPc' = [oPc EXCEPT ![o] = "start_dupconnect"]
          ELSE /\ redisClient' = [redisClient EXCEPT ![o] = "closed"]
               /\ oPc' = [oPc EXCEPT ![o] = "failed"]
               /\ UNCHANGED <<isStarted, subscriberClient, cState, cCmds>>
    /\ UNCHANGED <<errLogged, onerrorCalled, cInbox, oCmds, startCalls, closeCalls,
                   msgErrors, resVars, brokerVars, fwdVars>>

\* A variant of the step below whose start() subscribes on _redisClient
\* itself.
StartSubscribesOnBase(o, ok, accepted) ==
    LET k == subscriberClient[o]
        c == getChannelName(SessionId(o))
    IN  /\ oPc[o] = "start_dupconnect"
        /\ ok /\ accepted
        /\ cState' = [cState EXCEPT ![o][k] = "open"]
        /\ oCmds' = [oCmds EXCEPT ![o] = Append(@, "subscribe")]
        /\ cInbox' = [cInbox EXCEPT ![o][k] = Append(@, Item("subscribed", NoText))]
        /\ brokerSubs' = [brokerSubs EXCEPT ![c] = @ \cup {<<o, k>>}]
        /\ oPc' = [oPc EXCEPT ![o] = "start_subscribe"]
        /\ UNCHANGED <<baseVars, subscriberClient, cCmds, startCalls, closeCalls,
                       msgErrors, resVars, chanLog, fanout, fwdVars>>

\* The duplicate's connect() resolved (ok) or rejected; when it resolved,
\* start() computes the channel and subscribes: the broker takes the
\* subscription (accepted) or answers with an error.
StartDupConnected(o, ok, accepted) ==
    LET k == subscriberClient[o]
        c == getChannelName(SessionId(o))
    IN  /\ oPc[o] = "start_dupconnect"
        /\ (~ok => ~accepted)
        /\ IF ok
              THEN /\ cState' = [cState EXCEPT ![o][k] = "open"]
                   /\ cCmds' = [cCmds EXCEPT ![o][k] = Append(@, "subscribe")]
                   /\ cInbox' = [cInbox EXCEPT ![o][k] =
                        Append(@, Item(IF accepted THEN "subscribed" ELSE "error", NoText))]
                   /\ brokerSubs' = [brokerSubs EXCEPT ![c] =
                        IF accepted THEN @ \cup {<<o, k>>} ELSE @]
                   /\ oPc' = [oPc EXCEPT ![o] = "start_subscribe"]
              ELSE /\ cState' = [cState EXCEPT ![o][k] = "closed"]
                   /\ oPc' = [oPc EXCEPT ![o] = "failed"]
                   /\ UNCHANGED <<cCmds, cInbox, brokerSubs>>
        /\ UNCHANGED <<baseVars, subscriberClient, oCmds, startCalls, closeCalls,
                       msgErrors, resVars, chanLog, fanout, fwdVars>>

\* Variants of the listener below that a slip in it would give: one that
\* parses and never writes, one that lets a message overtake the event
\* written last, one that writes the payload as it came.
ListenerParsesOnly(o, message) ==
    LET data == JSONParse(message)
    IN  /\ msgErrors' = [msgErrors EXCEPT ![o] = IF data.ok THEN @ ELSE @ + 1]
        /\ UNCHANGED <<headersSent, stream>>

ListenerOvertakes(o, message) ==
    LET data == JSONParse(message)
        ev == MessageEvent(JSONStringify(data.val))
        n == Len(stream[o])
    IN  IF data.ok
           THEN /\ stream' = [stream EXCEPT ![o] =
                        IF n > 0 /\ @[n].event = "message"
                           THEN SubSeq(@, 1, n - 1) \o <<ev, @[n]>>
                           ELSE (IF headersSent[o] THEN @ ELSE Append(@, HeadEvent)) \o <<ev>>]
                /\ headersSent' = [headersSent EXCEPT ![o] = TRUE]
                /\ UNCHANGED msgErrors
           ELSE /\ msgErrors' = [msgErrors EXCEPT ![o] = @ + 1]
                /\ UNCHANGED <<headersSent, stream>>

ListenerWritesRaw(o, message) ==
    /\ ResponseWrite(o, MessageEvent(message))
    /\ UNCHANGED msgErrors

\* The listener start() passes to subscribe(): parse the payload and write
\* it to the response as a message event; log and drop what does not parse.
SubscribeListener(o, message) ==
    LET data == JSONParse(message)
    IN  IF data.ok
           THEN /\ ResponseWrite(o, MessageEvent(JSONStringify(data.val)))
                /\ UNCHANGED msgErrors
           ELSE /\ msgErrors' = [msgErrors EXCEPT ![o] = @ + 1]
                /\ UNCHANGED <<headersSent, stream>>

\* The item of a client's connection that the client handles next.
NextItem(queue) == Head(queue)
RestItems(queue) == Tail(queue)

\* A dedicated client handles the next thing the broker sent it: a message
\* goes to the listener, a reply resumes the call that awaits it.
Receive(o, k) ==
    /\ cState[o][k] = "open"
    /\ cInbox[o][k] # <<>>
    /\ LET item == NextItem(cInbox[o][k])
       IN  /\ cInbox' = [cInbox EXCEPT ![o][k] = RestItems(@)]
           /\ IF item.kind = "message"
                 THEN /\ SubscribeListener(o, item.data)
                      /\ UNCHANGED oPc
                 ELSE /\ oPc' = [oPc EXCEPT ![o] =
                            CASE item.kind = "subscribed" -> "start_head"
                              [] item.kind = "unsubscribed" -> "close_disc"
                              [] OTHER -> "failed"]
                      /\ UNCHANGED <<headersSent, stream, msgErrors>>
    /\ UNCHANGED <<baseVars, subscriberClient, cState, cCmds, oCmds, startCalls,
                   closeCalls, peerGone, brokerVars, fwdVars>>

\* A variant of the step below in which writeHead() is not reached with the
\* headers sent, or does not throw: start() writes the announcement anyway.
StartWriteHeadAgain(o) ==
    /\ oPc[o] = "start_head"
    /\ headersSent' = [headersSent EXCEPT ![o] = TRUE]
    /\ stream' = [stream EXCEPT ![o] =
            @ \o <<HeadEvent, EndpointEvent(Endpoint, SessionId(o))>>]
    /\ oPc' = [oPc EXCEPT ![o] = "ready"]
    /\ UNCHANGED <<baseVars, subscriberClient, cState, cInbox, cCmds, oCmds,
                   startCalls, closeCalls, msgErrors, peerGone, brokerVars, fwdVars>>

\* subscribe() resolved: start() writes the headers and the announcement
\* event. writeHead() throws when the headers were sent already.
StartWriteHead(o) ==
    /\ oPc[o] = "start_head"
    /\ IF headersSent[o]
          THEN /\ oPc' = [oPc EXCEPT ![o] = "failed"]
               /\ UNCHANGED <<headersSent, stream>>
          ELSE /\ headersSent' = [headersSent EXCEPT ![o] = TRUE]
               /\ stream' = [stream EXCEPT ![o] =
                    @ \o <<HeadEvent, EndpointEvent(Endpoint, SessionId(o))>>]
               /\ oPc' = [oPc EXCEPT ![o] = "ready"]
    /\ UNCHANGED <<baseVars, subscriberClient, cState, cInbox, cCmds, oCmds,
                   startCalls, closeCalls, msgErrors, peerGone, brokerVars, fwdVars>>

(* --------------------- SSESubscribeTransport.send --------------------- *)

\* send(message): written to the response directly.
Send(o, message) ==
    /\ ResponseWrite(o, MessageEvent(JSONStringify(message)))
    /\ UNCHANGED <<baseVars, ownerVars, peerGone, brokerVars, fwdVars>>

\* A message the hosting process has not pushed on this stream yet.
NotSent(o, message) ==
    \A i \in 1..Len(stream[o]) :
        stream[o][i].event = "message" => stream[o][i].data.val # message

\* The hosting process pushes a locally generated message on a started stream.
OwnerSend(o, message) ==
    /\ oPc[o] = "ready"
    /\ NotSent(o, message)
    /\ Send(o, message)

(* --------------------- SSESubscribeTransport.close -------------------- *)

\* SSERedisTransportBase.close() up to its await: disconnect when started.
SuperClose(o) ==
    IF isStarted[o]
       THEN /\ redisClient' = [redisClient EXCEPT ![o] = "closed"]
            /\ oCmds' = [oCmds EXCEPT ![o] = Append(@, "disconnect")]
            /\ oPc' = [oPc EXCEPT ![o] = "close_base"]
       ELSE /\ oPc' = [oPc EXCEPT ![o] = "closed"]
            /\ UNCHANGED <<redisClient, oCmds>>

\* Whether close() goes through the dedicated client first.
HasSubscriberClient(o) == subscriberClient[o] # 0

\* A variant of the step below whose close() does not unsubscribe and goes
\* straight to the dedicated client's disconnect().
BeginCloseNoUnsubscribe(o, resolves) ==
    /\ closeCalls' = [closeCalls EXCEPT ![o] = @ + 1]
    /\ resolves
    /\ IF HasSubscriberClient(o)
          THEN /\ oPc' = [oPc EXCEPT ![o] = "close_disc"]
               /\ UNCHANGED <<redisClient, oCmds>>
          ELSE SuperClose(o)
    /\ UNCHANGED <<isStarted, errLogged, onerrorCalled, subscriberClient, cState,
                   cInbox, cCmds, startCalls, msgErrors, resVars, brokerVars, fwdVars>>

\* close() is called: with a dedicated client it unsubscribes from the
\* channel and awaits the reply (on a client that is not open the command
\* resolves or rejects); without one it goes on to super.close().
BeginClose(o, resolves) ==
    LET k == subscriberClient[o]
        c == getChannelName(SessionId(o))
    IN  /\ closeCalls' = [closeCalls EXCEPT ![o] = @ + 1]
        /\ IF HasSubscriberClient(o)
              THEN /\ cCmds' = [cCmds EXCEPT ![o][k] = Append(@, "unsubscribe")]
                   /\ IF cState[o][k] = "open"
                         THEN /\ resolves
                              /\ brokerSubs' = [brokerSubs EXCEPT ![c] = @ \ {<<o, k>>}]
                              /\ cInbox' = [cInbox EXCEPT ![o][k] =
                                    Append(@, Item("unsubscribed", NoText))]
                              /\ oPc' = [oPc EXCEPT ![o] = "close_unsub"]
                         ELSE /\ oPc' = [oPc EXCEPT ![o] =
                                    IF resolves THEN "close_disc" ELSE "failed"]
                              /\ UNCHANGED <<brokerSubs, cInbox>>
                   /\ UNCHANGED <<redisClient, oCmds>>
              ELSE /\ resolves
                   /\ SuperClose(o)
                   /\ UNCHANGED <<cCmds, brokerSubs, cInbox>>
        /\ UNCHANGED <<isStarted, errLogged, onerrorCalled, subscriberClient, cState,
                       startCalls, msgErrors, resVars, chanLog, fanout, fwdVars>>

\* The hosting process closes a transport, once (server.close()).
CloseOwner(o, resolves) ==
    /\ oPc[o] \in OwnerIdle
    /\ closeCalls[o] = 0
    /\ BeginClose(o, resolves)

\* unsubscribe() resolved: close() disconnects the dedicated client, which
\* drops its connection and what was still queued on it.
CloseSubDisconnect(o, resolves) ==
    LET k == subscriberClient[o]
    IN  /\ oPc[o] = "close_disc"
        /\ cCmds' = [cCmds EXCEPT ![o][k] = Append(@, "disconnect")]
        /\ IF cState[o][k] = "open"
              THEN /\ resolves
                   /\ cState' = [cState EXCEPT ![o][k] = "closed"]
                   /\ cInbox' = [cInbox EXCEPT ![o][k] = <<>>]
                   /\ brokerSubs' = [ch \in Channels |-> brokerSubs[ch] \ {<<o, k>>}]
                   /\ oPc' = [oPc EXCEPT ![o] = "close_super"]
              ELSE /\ oPc' = [oPc EXCEPT ![o] =
                        IF resolves THEN "close_super" ELSE "failed"]
                   /\ UNCHANGED <<cState, cInbox, brokerSubs>>
        /\ UNCHANGED <<baseVars, subscriberClient, oCmds, startCalls, closeCalls,
                       msgErrors, resVars, chanLog, fanout, fwdVars>>

\* The dedicated client's disconnect() resolved: close() calls super.close().
CloseSuper(o) ==
    /\ oPc[o] = "close_super"
    /\ SuperClose(o)
    /\ UNCHANGED <<isStarted, errLogged, onerrorCalled, subscriberClient, cState,
                   cInbox, cCmds, startCalls, closeCalls, msgErrors, resVars,
                   brokerVars, fwdVars>>

\* The base client's disconnect() resolved: _isStarted = false.
CloseBaseDone(o) ==
    /\ oPc[o] = "close_base"
    /\ isStarted' = [isStarted EXCEPT ![o] = FALSE]
    /\ oPc' = [oPc EXCEPT ![o] = "closed"]
    /\ UNCHANGED <<redisClient, errLogged, onerrorCalled, subscriberClient, cState,
                   cInbox, cCmds, oCmds, startCalls, closeCalls, msgErrors, resVars,
                   brokerVars, fwdVars>>

\* The remote peer of the outbound stream disconnects. Neither the transport
\* nor the GET /sse handler listens for the response's 'close'.
PeerDisconnect(o) ==
    /\ headersSent[o]
    /\ ~peerGone[o]
    /\ peerGone' = [peerGone EXCEPT ![o] = TRUE]
    /\ UNCHANGED <<baseVars, ownerVars, headersSent, stream, brokerVars, fwdVars>>

(* -------------------------- SSEPublishTransport ----------------------- *)

SetCall(k, op, f, msg, pc) ==
    call' = [call EXCEPT ![k] = [op |-> op, f |-> f, msg |-> msg, pc |-> pc]]

SetPc(k, pc) == call' = [call EXCEPT ![k].pc = pc]

\* The call returns (result "ok") or throws (result "failed").
Finish(k, f, op, result) ==
    /\ call' = [call EXCEPT ![k] = NoCall]
    /\ lastSend' = [lastSend EXCEPT ![f] = IF op = "send" THEN result ELSE @]

\* The free slot a new call takes: the first one.
FreeSlot(k) ==
    /\ call[k].pc = "free"
    /\ (k = "k2" => call["k1"].pc # "free")

\* POST /messages: the handler creates the forwarder and awaits
\* server.connect(transport), which makes it the server's transport and
\* calls its start(): SSERedisTransportBase.start() up to the await of
\* connect().
PostRequest(k, f) ==
    /\ stage[f] = "new"
    /\ FreeSlot(k)
    /\ stage' = [stage EXCEPT ![f] = "connecting"]
    /\ redisClient' = [redisClient EXCEPT ![f] = "connecting"]
    /\ SetCall(k, "start", f, "", "start_connect")
    /\ UNCHANGED <<isStarted, errLogged, onerrorCalled, ownerVars, resVars,
                   brokerVars, lastSend, post>>

\* publish(channel, JSON.stringify(message)) on the forwarder's client, and
\* what becomes of the send() that awaits it: on an open client the broker
\* takes the payload (accepted) or the command fails; on a client that is
\* not open the command is rejected. A publish that fails ends send().
Publish(k, f, message, accepted) ==
    LET c == getChannelName(SessionId(f))
    IN  IF redisClient[f] = "open" /\ accepted
           THEN /\ BrokerPublish(c, JSONStringify(message))
                /\ SetCall(k, "send", f, message, "send_publish")
                /\ UNCHANGED lastSend
           ELSE /\ Finish(k, f, "send", "failed")
                /\ UNCHANGED <<brokerVars, cInbox>>

\* send(message) is called on the server's transport: it starts the
\* connection when _isStarted is false (connect() rejects on a client that
\* is connecting or open), and publishes at once when it is true.
SendBegin(k, f, message, accepted) ==
    LET c == getChannelName(SessionId(f))
    IN  /\ stage[f] # "new"
        /\ FreeSlot(k)
        /\ Len(chanLog[c]) + PendingPublishes(c) < MaxPub
        /\ IF ~isStarted[f]
              THEN /\ accepted
                   /\ IF redisClient[f] = "closed"
                         THEN /\ redisClient' = [redisClient EXCEPT ![f] = "connecting"]
                              /\ SetCall(k, "send", f, message, "send_connect")
                              /\ UNCHANGED lastSend
                         ELSE /\ Finish(k, f, "send", "failed")
                              /\ UNCHANGED redisClient
                   /\ UNCHANGED <<brokerVars, cInbox>>
              ELSE /\ (redisClient[f] # "open" => accepted)
                   /\ Publish(k, f, message, accepted)
                   /\ UNCHANGED redisClient
        /\ UNCHANGED <<isStarted, errLogged, onerrorCalled, subscriberClient, cState,
                       cCmds, oCmds, oPc, startCalls, closeCalls, msgErrors, resVars,
                       stage, post>>

\* connect() resolved (ok) or rejected for the call that awaits it:
\* _isStarted = true, start() returns and a send() goes on to publish.
FwdConnectDone(k, ok, accepted) ==
    LET f == call[k].f
        op == call[k].op
    IN  /\ call[k].pc \in {"start_connect", "send_connect"}
        /\ redisClient[f] = "connecting"
        /\ (~(ok /\ op = "send") => accepted)
        /\ IF ok
              THEN /\ isStarted' = [isStarted EXCEPT ![f] = TRUE]
                   /\ redisClient' = [redisClient EXCEPT ![f] = "open"]
                   /\ IF op = "send"
                         THEN /\ LET c == getChannelName(SessionId(f))
                                 IN  IF accepted
                                        THEN /\ BrokerPublish(c, JSONStringify(call[k].msg))
                                             /\ SetPc(k, "send_publish")
                                             /\ UNCHANGED lastSend
                                        ELSE /\ Finish(k, f, op, "failed")
                                             /\ UNCHANGED <<brokerVars, cInbox>>
                              /\ UNCHANGED stage
                         ELSE /\ Finish(k, f, op, "ok")
                              /\ stage' = [stage EXCEPT ![f] = "connected"]
                              /\ UNCHANGED <<brokerVars, cInbox>>
              ELSE /\ redisClient' = [redisClient EXCEPT ![f] = "closed"]
                   /\ Finish(k, f, op, "failed")
                   /\ stage' = [stage EXCEPT ![f] = IF op = "start" THEN "failed" ELSE @]
                   /\ UNCHANGED <<isStarted, brokerVars, cInbox>>
        /\ UNCHANGED <<errLogged, onerrorCalled, subscriberClient, cState, cCmds, oCmds,
                       oPc, startCalls, closeCalls, msgErrors, resVars, post>>

\* publish() resolved: send() calls close(), which disconnects when
\* _isStarted is true (on a client that is not open the command resolves
\* or rejects).
FwdPublishDone(k, resolves) ==
    LET f == call[k].f
    IN  /\ call[k].pc = "send_publish"
        /\ IF isStarted[f]
              THEN IF redisClient[f] = "open"
                      THEN /\ resolves
                           /\ redisClient' = [redisClient EXCEPT ![f] = "closed"]
                           /\ SetPc(k, "send_close")
                           /\ UNCHANGED lastSend
                      ELSE /\ IF resolves
                                 THEN SetPc(k, "send_close") /\ UNCHANGED lastSend
                                 ELSE Finish(k, f, "send", "failed")
                           /\ UNCHANGED redisClient
              ELSE /\ resolves
                   /\ Finish(k, f, "send", "ok")
                   /\ UNCHANGED redisClient
        /\ UNCHANGED <<isStarted, errLogged, onerrorCalled, ownerVars, resVars,
                       brokerVars, stage, post>>

\* disconnect() resolved: _isStarted = false, and send() returns.
FwdCloseDone(k) ==
    LET f == call[k].f
    IN  /\ call[k].pc = "send_close"
        /\ isStarted' = [isStarted EXCEPT ![f] = FALSE]
        /\ Finish(k, f, "send", "ok")
        /\ UNCHANGED <<redisClient, errLogged, onerrorCalled, ownerVars, resVars,
                       brokerVars, stage, post>>

(* ---------------- SSEPublishTransport.handlePostMessage --------------- *)

ContentTypes == {"application/json", "text/plain"}
BodyTexts == {Text(TRUE, "m1", TRUE), JSONStringify("j1"), Garbage}

\* The inbound requests: req.body absent (the raw body is still to be read),
\* a string a body parser left, or an object a JSON body parser left.
Requests ==
    {[ct |-> ct, body |-> b, text |-> t] :
        ct \in ContentTypes, b \in {"absent", "string"}, t \in BodyTexts}
    \cup {[ct |-> ct, body |-> "object", text |-> JSONStringify("m1")] :
            ct \in ContentTypes}

\* A variant of the decode step below that checks no Content-Type.
handlePostMessageAnyType(req) ==
    LET Throw == [result |-> "error", msg |-> ""]
        message == JSONParse(req.text)
    IN  IF req.body = "object" \/ ~message.ok THEN Throw
        ELSE IF ~JSONRPCMessageSchemaOk(message.val) THEN Throw
        ELSE [result |-> "ok", msg |-> message.val]

\* handlePostMessage(req, res): what it dispatches to onmessage, or that it
\* throws. With req.body absent the Content-Type must be application/json
\* and the raw body is read; JSON.parse of an object throws (it parses the
\* object's string form); JSONRPCMessageSchema.parse throws on a value that
\* is no structured message.
handlePostMessage(req) ==
    LET Throw == [result |-> "error", msg |-> ""]
    IN  IF req.body = "absent" /\ req.ct # "application/json" THEN Throw
        ELSE IF req.body = "object" THEN Throw
        ELSE LET message == JSONParse(req.text)
             IN  IF ~message.ok THEN Throw
                 ELSE IF ~JSONRPCMessageSchemaOk(message.val) THEN Throw
                 ELSE [result |-> "ok", msg |-> message.val]

\* The handler, once server.connect() returned, calls handlePostMessage.
HandlePost(f, req) ==
    /\ stage[f] = "connected"
    /\ stage' = [stage EXCEPT ![f] = "handled"]
    /\ post' = [post EXCEPT ![f] =
            [req |-> req, result |-> handlePostMessage(req).result,
             msg |-> handlePostMessage(req).msg]]
    /\ UNCHANGED <<baseVars, ownerVars, resVars, brokerVars, call, lastSend>>

(* ------------------------- other broker clients ----------------------- *)

\* What a client other than a forwarder may publish on a channel.
ForeignPayloads == {Garbage, JSONStringify("j1")}

ForeignPublish(c, payload) ==
    /\ Len(chanLog[c]) + PendingPublishes(c) < MaxPub
    /\ Len(SelectSeq(chanLog[c], LAMBDA p : p \in ForeignPayloads)) < MaxForeign
    /\ BrokerPublish(c, payload)
    /\ UNCHANGED <<baseVars, subscriberClient, cState, cCmds, oCmds, oPc, startCalls,
                   closeCalls, msgErrors, resVars, fwdVars>>

(* --------------------------- specifications --------------------------- *)

\* An owner driven as index.ts drives it (one start(), then pushes on the
\* started stream and close() calls, one call at a time) and the steps of
\* its calls.
OwnerNext(owners) ==
    \/ \E o \in owners : StartOwner(o)
    \/ \E o \in owners, ok \in BOOLEAN : StartBaseDone(o, ok)
    \/ \E o \in owners, ok \in BOOLEAN, accepted \in BOOLEAN : StartDupConnected(o, ok, accepted)
    \/ \E o \in owners, k \in Clients : Receive(o, k)
    \/ \E o \in owners : StartWriteHead(o)
    \/ \E o \in owners, m \in LocalMessages : OwnerSend(o, m)
    \/ \E o \in owners, resolves \in BOOLEAN : CloseOwner(o, resolves)
    \/ \E o \in owners, resolves \in BOOLEAN : CloseSubDisconnect(o, resolves)
    \/ \E o \in owners : CloseSuper(o)
    \/ \E o \in owners : CloseBaseDone(o)

\* A forwarder driven as index.ts drives it (server.connect(), then sends
\* on the server's transport) and the steps of its calls; the calls in
\* flight at once are as many as the slots.
FwdNext(slots, fwds) ==
    \/ \E k \in slots, f \in fwds : PostRequest(k, f)
    \/ \E k \in slots, f \in fwds, m \in PubMessages, accepted \in BOOLEAN :
            SendBegin(k, f, m, accepted)
    \/ \E k \in slots, ok \in BOOLEAN, accepted \in BOOLEAN : FwdConnectDone(k, ok, accepted)
    \/ \E k \in slots, resolves \in BOOLEAN : FwdPublishDone(k, resolves)
    \/ \E k \in slots : FwdCloseDone(k)

\* The two legs and the broker between them, the forwarder's calls made
\* one after the other.
Next ==
    \/ OwnerNext(Owner1)
    \/ \E o \in Owner1 : PeerDisconnect(o)
    \/ FwdNext({"k1"}, Fwd1)
    \/ \E c \in Channel1, payload \in ForeignPayloads : ForeignPublish(c, payload)

Spec == Init /\ [][Next]_vars

\* The inbound leg alone: the POST /messages handler with its decode step,
\* the sends on the forwarder, and failures of its broker connection.
NextInbound ==
    \/ \E t \in Transports : RedisError(t)
    \/ \E f \in Fwd1, req \in Requests : HandlePost(f, req)
    \/ FwdNext(Calls, Fwd1)

SpecInbound == Init /\ [][NextInbound]_vars

\* Any sequence of start(), send() and close() calls on an owner, one call
\* at a time: start() again on a transport that was started, failed or
\* closed, close() again, and send() on one that is not started.
RestartOwner(o) ==
    /\ oPc[o] \in OwnerIdle \ {"created"}
    /\ startCalls[o] < MaxStart
    /\ BeginStart(o)

Reclose(o, resolves) ==
    /\ oPc[o] \in OwnerIdle
    /\ closeCalls[o] \in 1..(MaxClose - 1)
    /\ BeginClose(o, resolves)

StraySend(o, message) ==
    /\ oPc[o] \in OwnerIdle \ {"ready"}
    /\ NotSent(o, message)
    /\ Send(o, message)

\* The outbound leg alone under any sequence of calls, with what reaches
\* its channel published by other clients of the broker.
NextAnyCalls ==
    \/ OwnerNext(Owner1)
    \/ \E o \in Owner1 : RestartOwner(o)
    \/ \E o \in Owner1, resolves \in BOOLEAN : Reclose(o, resolves)
    \/ \E o \in Owner1, m \in LocalMessages : StraySend(o, m)
    \/ \E c \in Channel1, payload \in ForeignPayloads : ForeignPublish(c, payload)

SpecAnyCalls == Init /\ [][NextAnyCalls]_vars

\* The message each forwarder sends when both sessions run: a different one
\* each, so that a payload tells which forwarder published it.
MessageOf(f) == IF f = "f1" THEN "m1" ELSE "m2"

\* Two sessions at once with the broker reachable (every command
\* succeeds): the owners of both started and closed as index.ts does, and
\* the forwarders of both sending, one call at a time.
NextSessions ==
    \/ \E o \in Owners : StartOwner(o)
    \/ \E o \in Owners : StartBaseDone(o, TRUE)
    \/ \E o \in Owners : StartDupConnected(o, TRUE, TRUE)
    \/ \E o \in Owners, k \in Clients : Receive(o, k)
    \/ \E o \in Owners : StartWriteHead(o)
    \/ \E o \in Owners : CloseOwner(o, TRUE)
    \/ \E o \in Owners : CloseSubDisconnect(o, TRUE)
    \/ \E o \in Owners : CloseSuper(o)
    \/ \E o \in Owners : CloseBaseDone(o)
    \/ \E f \in Fwds : PostRequest("k1", f)
    \/ \E f \in Fwds : SendBegin("k1", f, MessageOf(f), TRUE)
    \/ FwdConnectDone("k1", TRUE, TRUE)
    \/ FwdPublishDone("k1", TRUE)
    \/ FwdCloseDone("k1")

SpecSessions == Init /\ [][NextSessions]_vars

\* The server answers the message handlePostMessage dispatched to it: one
\* send() on the forwarder, with the message dispatched (an echo stands for
\* the server's answer). A request that was rejected, and a message that
\* calls for no answer, lead to no send().
Respond(k, f, accepted) ==
    /\ stage[f] = "handled"
    /\ post[f].result = "ok"
    /\ lastSend[f] = "none"
    /\ SendBegin(k, f, post[f].msg, accepted)

\* POST /messages requests as index.ts handles them, one forwarder each:
\* server.connect(), the decode step, and the server's answer if any.
NextRequest ==
    \/ \E f \in Fwds : PostRequest("k1", f)
    \/ \E ok \in BOOLEAN : FwdConnectDone("k1", ok, TRUE)
    \/ \E f \in Fwds, req \in Requests : HandlePost(f, req)
    \/ \E f \in Fwds, accepted \in BOOLEAN : Respond("k1", f, accepted)
    \/ \E resolves \in BOOLEAN : FwdPublishDone("k1", resolves)
    \/ FwdCloseDone("k1")

SpecRequest == Init /\ [][NextRequest]_vars

(* ------------------------------ claims -------------------------------- *)

\* The values of the message events on an owner's stream, in order, the
\* ones the hosting process pushed itself left out.
Written(o) ==
    LET evs == SelectSeq(stream[o], LAMBDA e :
                    e.event = "message" /\ e.data.val \notin LocalMessages)
    IN  [i \in 1..Len(evs) |-> JSONParse(evs[i].data).val]

\* The values of the well-formed payloads among those the broker sent a
\* client, and among those the client has not handled yet.
ValuesOf(payloads) ==
    LET ps == SelectSeq(payloads, LAMBDA p : JSONParse(p).ok)
    IN  [i \in 1..Len(ps) |-> JSONParse(ps[i]).val]

Queued(o, k) ==
    LET items == SelectSeq(cInbox[o][k], LAMBDA it : it.kind = "message")
    IN  ValuesOf([i \in 1..Len(items) |-> items[i].data])

Times(v, seq) == Cardinality({i \in 1..Len(seq) : seq[i] = v})

\* C1. Round trip: a valid message a forwarder published while the owner's
\* client was subscribed is on the owner's stream exactly once as a message
\* event whose payload is that message, or is still queued on the client's
\* open connection, to be written: none is lost, none is duplicated.
C1_RoundTrip ==
    \A o \in Owners, m \in PubMessages :
        LET k == subscriberClient[o]
        IN  IF k = 0
               THEN Times(m, Written(o)) = 0
               ELSE /\ Times(m, Written(o)) + Times(m, Queued(o, k))
                        = Times(m, ValuesOf(fanout[o][k]))
                    /\ (Queued(o, k) # <<>> => cState[o][k] = "open")
                    /\ \A i \in 1..Len(stream[o]) :
                          (stream[o][i].event = "message" /\ stream[o][i].data.val = m)
                              => stream[o][i].data = JSONStringify(m)

\* A forwarder's send() of m1 has returned and the subscribed owner has
\* written m1 to its stream.
C1_Witness ==
    \E o \in Owners, f \in Fwds :
        /\ lastSend[f] = "ok"
        /\ chanLog[getChannelName(SessionId(f))] = <<JSONStringify("m1")>>
        /\ Times("m1", Written(o)) = 1

\* C2. Ordering: with one subscribed client, the message events the owner
\* wrote for the channel, followed by what is still queued on the client,
\* are the payloads the broker sent the client, in the broker's order.
C2_Ordering ==
    \A o \in Owners :
        LET k == subscriberClient[o]
        IN  k # 0 => Written(o) \o Queued(o, k) = ValuesOf(fanout[o][k])

\* Two different messages were published one after the other and both are
\* on the stream, in that order.
C2_Witness ==
    \E o \in Owners :
        /\ Written(o) = <<"m2", "m1">>
        /\ fanout[o][1] = <<JSONStringify("m2"), JSONStringify("m1")>>

\* The owner's start() has returned: its announcement is on the stream.
Started(o) == \E i \in 1..Len(stream[o]) : stream[o][i].event = "endpoint"

\* C3. Idempotent close: close() called on a started owner that a close()
\* has closed returns at once without error, and issues no command on the
\* dedicated client (no unsubscribe, no disconnect) nor on the base client.
C3_IdempotentClose ==
    [][\A o \in Owners :
          (Started(o) /\ oPc[o] = "closed" /\ closeCalls'[o] # closeCalls[o])
              => /\ cCmds'[o] = cCmds[o]
                 /\ oCmds'[o] = oCmds[o]
                 /\ oPc'[o] = "closed"]_vars

\* A send() on forwarder f returns or throws in this step.
SendReturns(f) ==
    \/ lastSend'[f] # lastSend[f]
    \/ \E k \in Calls : call[k].op = "send" /\ call[k].f = f /\ call'[k].pc = "free"

\* C4. Never half-open: when a send() on a forwarder finishes, whether its
\* publish succeeded or failed, the forwarder's broker connection is closed.
C4_NeverHalfOpen ==
    [][\A f \in Fwds : SendReturns(f) => redisClient'[f] = "closed"]_vars

\* A request the decode step is claimed to reject: its Content-Type is not
\* application/json, or its body is no JSON, or no structured message.
BadRequest(req) ==
    \/ req.ct # "application/json"
    \/ ~req.text.wf
    \/ ~JSONRPCMessageSchemaOk(req.text.val)

\* The same, the Content-Type counting only when no body parser has left
\* req.body.
Undecodable(req) ==
    \/ req.body = "absent" /\ req.ct # "application/json"
    \/ ~req.text.wf
    \/ ~JSONRPCMessageSchemaOk(req.text.val)

\* handlePostMessage threw on forwarder f in this step: nothing was
\* dispatched to onmessage and nothing was published.
Rejects(f) ==
    /\ post'[f].result = "error"
    /\ post'[f].msg = ""
    /\ chanLog' = chanLog
    /\ cInbox' = cInbox

\* C5, as claimed. Decode rejection: handlePostMessage throws, dispatches
\* nothing and publishes nothing for every request whose Content-Type is not
\* application/json or whose body is no valid JSON or no structured message.
C5_RejectsEveryBadRequest ==
    [][\A f \in Fwds :
          (post'[f] # post[f] /\ BadRequest(post'[f].req)) => Rejects(f)]_vars

\* C5, amended. Decode rejection: handlePostMessage throws, dispatches
\* nothing and publishes nothing for every request whose body is no valid
\* JSON or no structured message, or whose Content-Type is not
\* application/json while req.body is absent.
C5_DecodeRejection ==
    [][\A f \in Fwds :
          (post'[f] # post[f] /\ Undecodable(post'[f].req)) => Rejects(f)]_vars

\* A request with a valid message for body and no req.body was rejected for
\* its Content-Type text/plain alone.
C5_Witness ==
    \E f \in Fwds :
        /\ post[f].result = "error"
        /\ post[f].req = [ct |-> "text/plain", body |-> "absent",
                          text |-> Text(TRUE, "m1", TRUE)]

\* The places of the announcement events on an owner's stream.
Announcements(o) == {i \in 1..Len(stream[o]) : stream[o][i].event = "endpoint"}

C7_OnlyValidForwarded ==
    /\ \A o \in Owners : \A i \in 1..Len(stream[o]) :
          stream[o][i].event = "message"
              => /\ stream[o][i].data.wf
                 /\ JSONRPCMessageSchemaOk(stream[o][i].data.val)
    /\ \A f \in Fwds :
          post[f].result = "ok" => JSONRPCMessageSchemaOk(post[f].msg)

\* Client k of owner o handles, in this step, a payload that is not
\* well-formed JSON.
HandlesMalformed(o, k) ==
    /\ cState[o][k] = "open"
    /\ cInbox[o][k] # <<>>
    /\ Head(cInbox[o][k]).kind = "message"
    /\ ~JSONParse(Head(cInbox[o][k]).data).ok
    /\ cInbox'[o][k] = Tail(cInbox[o][k])

\* C8. A malformed payload is dropped and contained: handling it writes
\* nothing to the stream, leaves the subscription, both connections and the
\* call in flight as they were, and keeps what is queued behind it.
C8_MalformedContained ==
    [][\A o \in Owners, k \in Clients :
          HandlesMalformed(o, k)
              => /\ stream'[o] = stream[o]
                 /\ headersSent'[o] = headersSent[o]
                 /\ brokerSubs' = brokerSubs
                 /\ cState'[o] = cState[o]
                 /\ redisClient'[o] = redisClient[o]
                 /\ isStarted'[o] = isStarted[o]
                 /\ oPc'[o] = oPc[o]]_vars

\* A malformed payload was dropped and the valid message published after it
\* was written, the owner still subscribed with both connections open.
C8_Witness ==
    \E o \in Owners :
        /\ msgErrors[o] = 1
        /\ fanout[o][1] = <<Garbage, JSONStringify("m1")>>
        /\ Written(o) = <<"m1">>
        /\ <<o, 1>> \in brokerSubs[getChannelName(SessionId(o))]
        /\ cState[o][1] = "open"
        /\ redisClient[o] = "open"

\* C9. A failure of a transport's broker connection is surfaced: once the
\* client's 'error' listener has run, onerror has been invoked.
C9_ErrorSurfaced ==
    \A t \in Transports : errLogged[t] => onerrorCalled[t]

\* An owner with nothing left to run: no call in flight, nothing queued.
OwnerQuiet(o) ==
    /\ oPc[o] \in OwnerIdle
    /\ \A k \in Clients : cInbox[o][k] = <<>>

\* An owner whose connections are released and whose channel has no
\* subscription of its clients.
OwnerClosed(o) ==
    /\ redisClient[o] = "closed"
    /\ \A k \in Clients : cState[o][k] # "open"
    /\ \A c \in Channels, k \in Clients : <<o, k>> \notin brokerSubs[c]

\* C10. The remote peer's disconnect terminates the stream: an owner whose
\* peer is gone and that has nothing left to run is closed.
C10_ClosedAfterPeerDisconnect ==
    \A o \in Owners : (peerGone[o] /\ OwnerQuiet(o)) => OwnerClosed(o)

\* The command, if any, that this step issues on the owner's base client.
IssuesOnBase(o, cmd) == oCmds'[o] = Append(oCmds[o], cmd)

\* This step runs SSERedisTransportBase.start() of owner o up to its await.
BaseStartStep(o) == startCalls'[o] # startCalls[o]

\* This step runs SSERedisTransportBase.close() of owner o up to its await.
BaseCloseStep(o) ==
    \/ oPc[o] = "close_super" /\ oPc'[o] # "close_super"
    \/ closeCalls'[o] # closeCalls[o] /\ subscriberClient[o] = 0

\* C11, as claimed. Over any sequential series of start() and close() calls
\* the connect and disconnect commands issued on the base client strictly
\* alternate, beginning with connect.
C11_CommandsAlternate ==
    \A o \in Owners : \A i \in 1..Len(oCmds[o]) :
        oCmds[o][i] = (IF i % 2 = 1 THEN "connect" ELSE "disconnect")

\* C11, amended. Connection manager idempotence: start() with the connection
\* established issues no connect and leaves the state as it was; close()
\* with no connection issues no disconnect and leaves the state as it was;
\* over any sequential series of start() and close() calls a connect is
\* issued only with no connection, a disconnect only on an established one,
\* and every disconnect comes right after a connect, the first command
\* being a connect.
C11_ConnectionManager ==
    [][\A o \in Owners :
          /\ (BaseStartStep(o) /\ isStarted[o])
                => /\ oCmds'[o] = oCmds[o]
                   /\ isStarted'[o] = isStarted[o]
                   /\ redisClient'[o] = redisClient[o]
          /\ (BaseCloseStep(o) /\ ~isStarted[o])
                => /\ oCmds'[o] = oCmds[o]
                   /\ isStarted'[o] = isStarted[o]
                   /\ redisClient'[o] = redisClient[o]
          /\ oCmds'[o] # oCmds[o]
                => \/ /\ IssuesOnBase(o, "connect")
                      /\ BaseStartStep(o)
                      /\ ~isStarted[o] /\ redisClient[o] = "closed"
                   \/ /\ IssuesOnBase(o, "disconnect")
                      /\ BaseCloseStep(o)
                      /\ isStarted[o] /\ redisClient[o] = "open"
          /\ \A i \in 1..Len(oCmds'[o]) :
                oCmds'[o][i] = "disconnect" => (i > 1 /\ oCmds'[o][i - 1] = "connect")]_vars

\* start() was called twice and close() twice, the second of each on a
\* transport in the state the first had left, each close() getting as far
\* as super.close(): one connect, one disconnect.
C11_Witness ==
    \E o \in Owners :
        /\ startCalls[o] = 2
        /\ closeCalls[o] = 2
        /\ oPc[o] = "closed"
        /\ oCmds[o] = <<"connect", "disconnect">>
        /\ cCmds[o][2] = <<"connect", "subscribe", "unsubscribe", "disconnect",
                           "unsubscribe", "disconnect">>

\* The published messages a client's connection still holds.
MessageItems(o, k) == SelectSeq(cInbox[o][k], LAMBDA it : it.kind = "message")

\* C12. Delivery miss: a publish on a channel with no subscriber is taken by
\* the broker and the send() that made it returns without error; it writes
\* nothing to any stream and queues nothing on any connection; and a client
\* gets a payload only in the step that publishes it, while subscribed, so
\* an owner that subscribes later never receives what was published before.
C12_DeliveryMiss ==
    [][/\ \A c \in Channels :
            (chanLog'[c] # chanLog[c] /\ brokerSubs[c] = {})
                => /\ stream' = stream
                   /\ cInbox' = cInbox
                   /\ fanout' = fanout
                   /\ \A k \in Calls : call'[k].pc # call[k].pc => call'[k].pc = "send_publish"
       /\ \A k \in Calls :
            (call[k].pc \in {"send_publish", "send_close"} /\ call'[k].pc = "free")
                => lastSend'[call[k].f] = "ok"
       /\ \A o \in Owners, k \in Clients :
            LET c == getChannelName(SessionId(o))
            IN  /\ fanout'[o][k] # fanout[o][k]
                    => /\ <<o, k>> \in brokerSubs[c]
                       /\ Len(chanLog'[c]) = Len(chanLog[c]) + 1
                       /\ fanout'[o][k] = Append(fanout[o][k], chanLog'[c][Len(chanLog'[c])])
                /\ Len(MessageItems(o, k)') > Len(MessageItems(o, k))
                    => fanout'[o][k] # fanout[o][k]
       /\ \A o \in Owners :
            (Len(Written(o)') > Len(Written(o)))
                => \E k \in Clients :
                      /\ cInbox[o][k] # <<>>
                      /\ cInbox'[o][k] = Tail(cInbox[o][k])
                      /\ Head(cInbox[o][k]).kind = "message"]_vars

\* A send() published m1 before the owner had subscribed and returned
\* without error; the owner, subscribed since, has received nothing and its
\* stream carries the headers and the announcement only.
C12_Witness ==
    \E o \in Owners, f \in Fwds :
        /\ lastSend[f] = "ok"
        /\ chanLog[getChannelName(SessionId(f))] = <<JSONStringify("m1")>>
        /\ oPc[o] = "ready"
        /\ <<o, 1>> \in brokerSubs[getChannelName(SessionId(o))]
        /\ fanout[o][1] = <<>>
        /\ cInbox[o][1] = <<>>
        /\ stream[o] = <<HeadEvent, EndpointEvent(Endpoint, SessionId(o))>>

\* Identifiers a transport may be given: the minted ones, the empty string
\* and the text of a missing query parameter.
Identifiers == SessionIds \cup {"", "undefined"}

\* C13. Channel naming: for every identifier the channel name is
\* "sse:channel:" followed by the identifier, whatever the state; so an
\* owner's subscription is on the channel named after its identifier, what
\* a forwarder published is on the channel named after the identifier it was
\* constructed with, and an owner that has unsubscribed holds no
\* subscription on any channel.
C13_ChannelNaming ==
    /\ \A id \in Identifiers : getChannelName(id) = "sse:channel:" \o id
    /\ \A id1, id2 \in Identifiers : id1 # id2 => getChannelName(id1) # getChannelName(id2)
    /\ \A c \in Channels, o \in Owners, k \in Clients :
          <<o, k>> \in brokerSubs[c] => c = "sse:channel:" \o SessionId(o)
    /\ \A c \in Channels, f \in Fwds : \A i \in 1..Len(chanLog[c]) :
          chanLog[c][i] = JSONStringify(MessageOf(f)) => c = "sse:channel:" \o SessionId(f)
    /\ \A o \in Owners :
          oPc[o] \in {"close_unsub", "close_disc", "close_super", "close_base", "closed"}
              => \A c \in Channels, k \in Clients : <<o, k>> \notin brokerSubs[c]

\* The owner of the first session got what its forwarder published and has
\* unsubscribed since, the owner of the second session still subscribed.
C13_Witness ==
    /\ chanLog["sse:channel:s1"] = <<JSONStringify("m1")>>
    /\ fanout["o1"][1] = <<JSONStringify("m1")>>
    /\ oPc["o1"] = "close_unsub"
    /\ brokerSubs["sse:channel:s1"] = {}
    /\ brokerSubs["sse:channel:s2"] = {<<"o2", 1>>}

\* The last command issued on a client, "" when none was.
LastCmd(cmds) == IF cmds = <<>> THEN "" ELSE cmds[Len(cmds)]

\* No channel has a subscription of a client of owner o.
NoSubscription(o) ==
    \A c \in Channels, k \in Clients : <<o, k>> \notin brokerSubs[c]

\* C14. Close ordering of a started owner: close() first unsubscribes on the
\* dedicated client and issues nothing else; the dedicated client is
\* disconnected next, after the unsubscribe and with the base connection
\* still open; the base client is disconnected last, the dedicated one
\* being closed; and once close() has returned both connections are closed
\* and no channel has a subscription of this transport.
C14_CloseOrdering ==
    [][\A o \in Owners :
          LET k == subscriberClient[o]
          IN  /\ (Started(o) /\ closeCalls'[o] # closeCalls[o])
                    => /\ k # 0
                       /\ cCmds'[o][k] = Append(cCmds[o][k], "unsubscribe")
                       /\ cState'[o][k] = "open"
                       /\ oCmds'[o] = oCmds[o]
                       /\ redisClient'[o] = "open"
              /\ (Started(o) /\ k # 0 /\ cCmds'[o][k] = Append(cCmds[o][k], "disconnect"))
                    => /\ LastCmd(cCmds[o][k]) = "unsubscribe"
                       /\ NoSubscription(o)
                       /\ oCmds'[o] = oCmds[o]
                       /\ redisClient'[o] = "open"
              /\ (Started(o) /\ IssuesOnBase(o, "disconnect"))
                    => /\ k # 0
                       /\ LastCmd(cCmds[o][k]) = "disconnect"
                       /\ cState[o][k] = "closed"
                       /\ cCmds'[o] = cCmds[o]
              /\ (Started(o) /\ oPc[o] # "closed" /\ oPc'[o] = "closed")
                    => /\ redisClient'[o] = "closed"
                       /\ ~isStarted'[o]
                       /\ \A k2 \in Clients : cState'[o][k2] \in {"none", "closed"}
                       /\ NoSubscription(o)'
                       /\ cCmds'[o][k] = <<"connect", "subscribe", "unsubscribe", "disconnect">>
                       /\ oCmds'[o] = <<"connect", "disconnect">>]_vars

\* close() has returned on an owner that was started and had written a
\* published message.
C14_Witness ==
    \E o \in Owners :
        /\ Started(o)
        /\ Written(o) = <<"m1">>
        /\ oPc[o] = "closed"
        /\ closeCalls[o] = 1
        /\ cState[o][1] = "closed"
        /\ redisClient[o] = "closed"

\* C15. Connection-role separation: the base client of an owner is only
\* connected and disconnected; subscribe and unsubscribe are issued on a
\* dedicated client only; a started owner has its base connection and its
\* dedicated connection both open, the subscription on the dedicated one;
\* and on a client that holds a subscription nothing was issued since its
\* subscribe.
C15_RoleSeparation ==
    \A o \in Owners :
        LET k == subscriberClient[o]
        IN  /\ \A i \in 1..Len(oCmds[o]) : oCmds[o][i] \in {"connect", "disconnect"}
            /\ \A k2 \in Clients : \A i \in 1..Len(cCmds[o][k2]) :
                  /\ cCmds[o][k2][i] \in {"connect", "subscribe", "unsubscribe", "disconnect"}
                  /\ i = 1 <=> cCmds[o][k2][i] = "connect"
            /\ oPc[o] = "ready"
                  => /\ redisClient[o] = "open"
                     /\ k # 0
                     /\ cState[o][k] = "open"
                     /\ <<o, k>> \in brokerSubs[getChannelName(SessionId(o))]
            /\ \A k2 \in Clients, c \in Channels :
                  <<o, k2>> \in brokerSubs[c]
                      => /\ cState[o][k2] = "open"
                         /\ LastCmd(cCmds[o][k2]) = "subscribe"

\* A started owner, its base client connected and nothing else, its
\* dedicated client subscribed and having received a payload.
C15_Witness ==
    \E o \in Owners :
        /\ oPc[o] = "ready"
        /\ oCmds[o] = <<"connect">>
        /\ cCmds[o][1] = <<"connect", "subscribe">>
        /\ <<o, 1>> \in brokerSubs[getChannelName(SessionId(o))]
        /\ fanout[o][1] # <<>>

\* C16. No message event before the announcement: every message event on
\* an owner's stream comes after the headers and the announcement event,
\* also when the message was published between the subscription and the
\* writing of the headers.
C16_NoMessageBeforeAnnouncement ==
    \A o \in Owners : \A i \in 1..Len(stream[o]) :
        (stream[o][i].event = "message" /\ stream[o][i].data.val \in PubMessages)
            => /\ i > 2
               /\ stream[o][1].event = "head"
               /\ stream[o][2].event = "endpoint"

\* send() is called on forwarder f in this step: it takes a call slot, or
\* it throws before its first await resolves.
SendCalled(f) ==
    \/ \E k \in Calls : call[k].pc = "free" /\ call'[k].op = "send" /\ call'[k].f = f
    \/ call' = call /\ lastSend'[f] # lastSend[f]

\* Another send() on forwarder f is in flight.
SendInFlight(f) == \E k \in Calls : call[k].op = "send" /\ call[k].f = f

\* C17. Overlapping send() calls are safe: a send() called while another
\* send() on the same forwarder is in flight finds the connection closed
\* when it is to connect (_isStarted false), so connect is not issued on a
\* connecting or connected client, and finds it open when it is to publish
\* (_isStarted true), so no publish is issued on a client the other send()
\* has disconnected; and no send() in flight publishes more than once.
C17_OverlappingSendsSafe ==
    [][\A f \in Fwds :
          (SendInFlight(f) /\ SendCalled(f))
              => IF isStarted[f] THEN redisClient[f] = "open"
                                 ELSE redisClient[f] = "closed"]_vars

\* The handler of forwarder f has run to its end and no call is in flight
\* on f: its start() failed, or its request was rejected, or the answer to
\* its message was sent or failed to be.
RequestOver(f) ==
    /\ \A k \in Calls : call[k].f = f => call[k].pc = "free"
    /\ \/ stage[f] = "failed"
       \/ stage[f] = "handled" /\ (post[f].result = "error" \/ lastSend[f] # "none")

\* C18. Every forwarder created for a request has its connection closed in
\* the end: once its request is over, whether it was rejected by the decode
\* step or answered, the connection is closed.
C18_ForwarderClosedInTheEnd ==
    \A f \in Fwds : RequestOver(f) => redisClient[f] = "closed"

\* C19. A start() that fails at the dedicated client's connect or at the
\* subscribe has thrown to its caller and leaves no connection of the
\* transport open, the base one included.
C19_StartFailureReleases ==
    \A o \in Owners :
        LET k == subscriberClient[o]
        IN  (/\ oPc[o] = "failed"
             /\ closeCalls[o] = 0
             /\ k # 0
             /\ LastCmd(cCmds[o][k]) \in {"connect", "subscribe"}
             /\ ~headersSent[o])
                => /\ redisClient[o] = "closed"
                   /\ \A k2 \in Clients : cState[o][k2] \in {"none", "closed"}

\* C20. Session isolation: with the owners of two sessions open at once,
\* what a forwarder published is neither written to the stream of an owner
\* with another identifier nor sent or queued to a client of such an owner;
\* every published message on an owner's stream is one its own session's
\* forwarder published.
C20_SessionIsolation ==
    \A o \in Owners, f \in Fwds :
        IF SessionId(f) = SessionId(o)
           THEN \A i \in 1..Len(Written(o)) :
                    \E j \in 1..Len(chanLog[getChannelName(SessionId(f))]) :
                        chanLog[getChannelName(SessionId(f))][j] = JSONStringify(Written(o)[i])
           ELSE /\ Times(MessageOf(f), Written(o)) = 0
                /\ \A k \in Clients :
                      /\ Times(MessageOf(f), ValuesOf(fanout[o][k])) = 0
                      /\ Times(MessageOf(f), Queued(o, k)) = 0

\* Both owners are started and subscribed, each forwarder has published its
\* message, and each stream carries the message of its own session only.
C20_Witness ==
    /\ oPc["o1"] = "ready" /\ oPc["o2"] = "ready"
    /\ chanLog[getChannelName("s1")] = <<JSONStringify("m1")>>
    /\ chanLog[getChannelName("s2")] = <<JSONStringify("m2")>>
    /\ fanout["o1"][1] = <<JSONStringify("m1")>>
    /\ fanout["o2"][1] = <<JSONStringify("m2")>>
    /\ Written("o1") = <<"m1">>
    /\ Written("o2") = <<"m2">>

====
